---- MODULE Spec2Model ----
(***************************************************************************)
(* BLS CPI data scraper (Code/main.ipynb).  The notebook runs top to       *)
(* bottom: the two reference feeds are filtered into area_df and item_df,  *)
(* code_list is generated as their cross product, and the main loop sends  *)
(* code_list to the API in chunks, one bls_data_scraper per chunk, which   *)
(* requests, processes and appends to the output file, then sleeps.        *)
(*                                                                         *)
(* Text values (codes, names, identifiers, cells) are TLA+ strings; Len,   *)
(* SubSeq and \o act on them character by character.  A data frame is a    *)
(* record [columns, rows]: the column names in order and one tuple of      *)
(* cells per row.                                                          *)
(***************************************************************************)
EXTENDS Integers, Sequences, FiniteSets, TLC

VARIABLES
    area_df,     \* the area data frame, as a sequence of rows: read from
                 \* raw_area.csv, then filtered in place
    item_df,     \* the item data frame, likewise from raw_item.csv
    code_list,   \* the generated series identifiers
    x,           \* loop variable of the main loop
    code_chunk,  \* the chunk of the current iteration
    json_data,   \* the decoded response of the current chunk
    df,          \* the data frame built by process_data
    out_file,    \* bls_data.csv: whether it exists, and its lines
    pc,          \* position of the notebook
    calls,       \* log: the seriesid list of every request posted
    call_times,  \* log: the value of now at every request posted
    file0,       \* log: out_file as it was when the run started
    written,     \* log: per write, the lines in the file at open and the records
    now          \* time units slept so far

vars == <<area_df, item_df, code_list, x, code_chunk,
          json_data, df, out_file, pc, calls, call_times, file0,
          written, now>>

----------------------------------------------------------------------------
(* Bounds of the model *)

\* rows of a short area feed
MaxAreaRows == 2
\* rows of a short item feed
MaxItemRows == 3
\* identifiers of the longest list
MaxCodes == 120
\* series objects in one response
MaxSeries == 1
\* lines of the output file: a response is taken only if its observations fit
MaxFileRows == 4

(* Constants of the program *)

BatchSize == 50
SleepTime == 2

----------------------------------------------------------------------------
(* Python helpers *)

Min(a, b) == IF a < b THEN a ELSE b

\* s[a:b] for 0 <= a <= b
PySlice(s, a, b) ==
    IF a >= Min(b, Len(s)) THEN "" ELSE SubSeq(s, a + 1, Min(b, Len(s)))

\* s[a:]
PySliceFrom(s, a) == PySlice(s, a, Len(s))

\* sub in s
Contains(s, sub) ==
    \E k \in 1..(Len(s) - Len(sub) + 1) : SubSeq(s, k, k + Len(sub) - 1) = sub

\* s.startswith(p)
StartsWith(s, p) == Len(s) >= Len(p) /\ SubSeq(s, 1, Len(p)) = p

Digits == {"0", "1", "2", "3", "4", "5", "6", "7", "8", "9"}

RECURSIVE Flatten(_)
Flatten(ss) == IF ss = <<>> THEN <<>> ELSE Head(ss) \o Flatten(Tail(ss))

\* every sequence over S of length at most n
SeqsUpTo(S, n) == UNION {[1..k -> S] : k \in 0..n}

----------------------------------------------------------------------------
(* Section 3.2: the filters *)

\* re.match("S[0-9]{3}", x): anchored at the start only
AreaCodeCheck(code) ==
    /\ Len(code) >= 4
    /\ SubSeq(code, 1, 1) = "S"
    /\ \A k \in 2..4 : SubSeq(code, k, k) \in Digits

\* "Size Class A" not in x
AreaNameCheck(name) == ~Contains(name, "Size Class A")

\* len(x) < 4
ItemCodeCheck(code) == Len(code) < 4

\* not re.match("All items [a-zA-Z\s,]*", x): the starred class matches the
\* empty string, so the match succeeds exactly on the prefix "All items "
ItemNameCheck(name) == ~StartsWith(name, "All items ")

AreaFilter(rows) ==
    LET passed == SelectSeq(rows, LAMBDA r : AreaCodeCheck(r.area_code))
    IN  SelectSeq(passed, LAMBDA r : AreaNameCheck(r.area_name))

ItemFilter(rows) ==
    LET passed == SelectSeq(rows, LAMBDA r : ItemCodeCheck(r.item_code))
    IN  SelectSeq(passed, LAMBDA r : ItemNameCheck(r.item_name))

----------------------------------------------------------------------------
(* Section 3.3: the identifier codec and the code generator *)

prefix == "CU"
seasonality == "U"
periodicity == "R"

\* f"{prefix}{seasonality}{periodicity}{str(area)}{str(item)}"
Encode(area, item) == prefix \o seasonality \o periodicity \o area \o item

\* variant: the item code read one position late, x[9:]
DecodeItemShifted(id) == PySliceFrom(id, 9)

\* x[4:8] and x[8:]
DecodeArea(id) == PySlice(id, 4, 8)
DecodeItem(id) == PySliceFrom(id, 8)

\* variant: the two loops nested the other way round
GenerateItemMajor(areas, items) ==
    [k \in 1..(Len(areas) * Len(items)) |->
        Encode(areas[((k - 1) % Len(areas)) + 1].area_code,
               items[((k - 1) \div Len(areas)) + 1].item_code)]

\* for area in area_df["area_code"]: for item in item_df["item_code"]: append
\* the k-th append is that of area (k-1) div |items| and item (k-1) mod |items|
GenerateCodes(areas, items) ==
    [k \in 1..(Len(areas) * Len(items)) |->
        Encode(areas[((k - 1) \div Len(items)) + 1].area_code,
               items[((k - 1) % Len(items)) + 1].item_code)]

\* variant: the slice one identifier too long, code_list[x:x+51]
CodeChunkLong(list, start) ==
    SubSeq(list, start + 1, Min(start + BatchSize + 1, Len(list)))

\* code_list[x:x+50]
CodeChunk(list, start) ==
    SubSeq(list, start + 1, Min(start + BatchSize, Len(list)))

----------------------------------------------------------------------------
(* Section 2: the response and the data frame of process_data *)

\* the missing value pandas puts in a cell without data
NaN == "NaN"

\* An observation is an ordered JSON object: a sequence of <<key, value>>.
ObsLatest ==
    << <<"year", "2020">>, <<"period", "M01">>, <<"periodName", "January">>,
       <<"latest", "true">>, <<"value", "100.0">>, <<"footnotes", "[{}]">> >>

ObsPast ==
    << <<"year", "2019">>, <<"period", "M12">>, <<"periodName", "December">>,
       <<"value", "99.5">>, <<"footnotes", "[{}]">> >>

\* the identifier of the same item for the national area code
National(id) == Encode("0000", DecodeItem(id))

\* the sample identifier of Section 3.3
SampleID == "CUUR0000SA0L1E"

Series(id, d) == [seriesID |-> id, data |-> d]

\* series objects a response to a request for chunk may carry: the first
\* series requested with no data, with data whose records all, partly or
\* never have the key "latest", and series of areas that were not requested
SeriesObjs(chunk) ==
    { Series(chunk[1], <<>>),
      Series(chunk[1], <<ObsLatest>>),
      Series(chunk[1], <<ObsPast>>),
      Series(chunk[1], <<ObsPast, ObsLatest>>),
      Series(National(chunk[1]), <<ObsLatest>>),
      Series(SampleID, <<ObsLatest>>) }

\* the bodies json.loads can return: the documented shape, or a body
\* without "Results", or one whose "Results" has no "series"
Responses(chunk) ==
    {[shape |-> "ok", series |-> ss] : ss \in SeqsUpTo(SeriesObjs(chunk), MaxSeries)}
    \cup {[shape |-> "no_Results", series |-> <<>>],
          [shape |-> "no_series", series |-> <<>>]}

RECURSIVE NumObs(_)
NumObs(ss) == IF ss = <<>> THEN 0 ELSE Len(Head(ss).data) + NumObs(Tail(ss))

\* the records of record_path, each with the seriesID of its series
RECURSIVE Records(_)
Records(ss) ==
    IF ss = <<>> THEN <<>>
    ELSE [k \in 1..Len(Head(ss).data) |->
             [obs |-> Head(ss).data[k], id |-> Head(ss).seriesID]]
         \o Records(Tail(ss))

HasKey(obs, key) == \E k \in 1..Len(obs) : obs[k][1] = key

Value(obs, key) ==
    IF HasKey(obs, key)
    THEN obs[CHOOSE k \in 1..Len(obs) : obs[k][1] = key][2]
    ELSE NaN

InSeq(e, s) == \E k \in 1..Len(s) : s[k] = e

\* F applied to the value of v, which is computed once
Apply(F(_), v) == CHOOSE r \in {F(e) : e \in {v}} : TRUE

\* cols extended by the keys of obs it does not have yet, in their order
RECURSIVE AddKeys(_, _)
AddKeys(cols, obs) ==
    LET AddKey(c) == IF InSeq(Head(obs)[1], c) THEN c
                     ELSE Append(c, Head(obs)[1])
        Rest(c) == AddKeys(c, Tail(obs))
    IN  IF obs = <<>> THEN cols
        ELSE Apply(Rest, Apply(AddKey, cols))

\* the columns of a frame built from a list of objects: first appearance
RECURSIVE KeyColumns(_, _)
KeyColumns(cols, recs) ==
    IF recs = <<>> THEN cols
    ELSE KeyColumns(AddKeys(cols, Head(recs).obs), Tail(recs))

\* pd.json_normalize(record_path, meta) then rename to "ID"
JsonNormalize(json) ==
    LET Frame(recs) ==
            LET Fill(cols) ==
                    [columns |-> Append(cols, "ID"),
                     rows |-> [k \in 1..Len(recs) |->
                                 Append([c \in 1..Len(cols) |->
                                            Value(recs[k].obs, cols[c])],
                                        recs[k].id)]]
            IN  Apply(Fill, KeyColumns(<<>>, recs))
    IN  Apply(Frame, Records(json.series))

ColIndex(frame, col) == CHOOSE c \in 1..Len(frame.columns) : frame.columns[c] = col

Cell(frame, row, col) == row[ColIndex(frame, col)]

\* df["area_code"] = df["ID"].apply(x[4:8]); df["item_code"] = ... x[8:]
DecodeColumns(frame) ==
    [columns |-> frame.columns \o <<"area_code", "item_code">>,
     rows |-> [k \in 1..Len(frame.rows) |->
                 frame.rows[k] \o <<DecodeArea(Cell(frame, frame.rows[k], "ID")),
                                    DecodeItem(Cell(frame, frame.rows[k], "ID"))>>]]

\* variant: how="inner", a row without a match is dropped
MergeRowInner(frame, row, right, on, add) ==
    LET Matching(key) == SelectSeq(right, LAMBDA r : r[on] = key)
        Joined(matches) == [m \in 1..Len(matches) |-> Append(row, matches[m][add])]
    IN  Apply(Joined, Apply(Matching, Cell(frame, row, on)))

\* pd.merge(frame, right, how="left", on=on): every left row once per
\* matching right row, in right order, or once with NaN when none matches
MergeRow(frame, row, right, on, add) ==
    LET Matching(key) == SelectSeq(right, LAMBDA r : r[on] = key)
        Joined(matches) ==
            IF matches = <<>> THEN <<Append(row, NaN)>>
            ELSE [m \in 1..Len(matches) |-> Append(row, matches[m][add])]
    IN  Apply(Joined, Apply(Matching, Cell(frame, row, on)))

MergeLeft(frame, right, on, add) ==
    [columns |-> Append(frame.columns, add),
     rows |-> Apply(Flatten, [k \in 1..Len(frame.rows) |->
                                MergeRow(frame, frame.rows[k], right, on, add)])]

\* frame[names]
SelectColumns(frame, names) ==
    [columns |-> names,
     rows |-> [k \in 1..Len(frame.rows) |->
                 [c \in 1..Len(names) |-> Cell(frame, frame.rows[k], names[c])]]]

\* df.drop(columns=[...])
DropColumns(frame, dropped) ==
    SelectColumns(frame, SelectSeq(frame.columns, LAMBDA c : ~InSeq(c, dropped)))

\* name_list[-3:-2] + name_list[-2:-1] + name_list[-1:] + name_list[:-3]
Rearrange(name_list) ==
    LET n == Len(name_list)
    IN  SubSeq(name_list, n - 2, n) \o SubSeq(name_list, 1, n - 3)

\* the two merges, the drop and the rearrangement of process_data
Enrich(frame, areas, items) ==
    LET a(f) == MergeLeft(f, areas, "area_code", "area_name")
        b(f) == MergeLeft(f, items, "item_code", "item_name")
        c(f) == DropColumns(f, <<"area_code", "item_code">>)
        d(f) == SelectColumns(f, Rearrange(f.columns))
    IN  Apply(d, Apply(c, Apply(b, Apply(a, frame))))

\* headers of __init__
HeaderRow == <<"ID", "area_name", "item_name", "year", "period",
               "periodName", "latest", "value", "footnotes">>

\* csv.writer writes str(value); the missing value is a float
CsvCell(v) == IF v = NaN THEN "nan" ELSE v

CsvRows(rows) ==
    [k \in 1..Len(rows) |-> [c \in 1..Len(rows[k]) |-> CsvCell(rows[k][c])]]

\* variant: the header written by every write
WriteBlockWithHeader(old, rows) == <<HeaderRow>> \o CsvRows(rows)

\* variant: records the file already holds are skipped
WriteBlockOnce(old, rows) ==
    (IF old = <<>> THEN <<HeaderRow>> ELSE <<>>)
    \o SelectSeq(CsvRows(rows), LAMBDA r : ~InSeq(r, old))

\* the lines one write appends to a file holding old
WriteBlock(old, rows) ==
    (IF old = <<>> THEN <<HeaderRow>> ELSE <<>>) \o CsvRows(rows)

----------------------------------------------------------------------------
(* The reference feeds the runs are started on *)

AreaRow(c, n) == [area_code |-> c, area_name |-> n]
ItemRow(c, n) == [item_code |-> c, item_name |-> n]

AreaRowSet ==
    { AreaRow("S100", "Northeast Size Class A"),
      AreaRow("S200", "Los Angeles"),
      AreaRow("S1000", "Metro"),
      AreaRow("A100", "Chicago") }

ItemRowSet ==
    { ItemRow("SA0", "All items"),
      ItemRow("SA0L1E", "Energy"),
      ItemRow("AB1", "Food"),
      ItemRow("SA1", "All items less shelter") }

OldRow == <<"CUURS200AB1", "Los Angeles", "Food", "2018", "M12",
            "December", "", "99.0", "[{}]">>

NoFile == [exists |-> FALSE, rows |-> <<>>]
EmptyFile == [exists |-> TRUE, rows |-> <<>>]
OldFile == [exists |-> TRUE, rows |-> <<HeaderRow, OldRow>>]

NoJson == [shape |-> "none", series |-> <<>>]
NoFrame == [columns |-> <<>>, rows |-> <<>>]

StartAt(areas, items, file) ==
    /\ area_df = areas
    /\ item_df = items
    /\ code_list = <<>>
    /\ x = 0
    /\ code_chunk = <<>>
    /\ json_data = NoJson
    /\ df = NoFrame
    /\ out_file = file
    /\ pc = "filter_area"
    /\ calls = <<>>
    /\ call_times = <<>>
    /\ file0 = file
    /\ written = <<>>
    /\ now = 0

\* runs of the notebook on short feeds, the output file absent
Init ==
    \E areas \in SeqsUpTo(AreaRowSet, MaxAreaRows),
       items \in SeqsUpTo(ItemRowSet, MaxItemRows) :
        StartAt(areas, items, NoFile)

\* the k-th metro area code of a long feed: S100, S101, ...
DigitSeq == <<"0", "1", "2", "3", "4", "5", "6", "7", "8", "9">>
MetroCode(k) ==
    LET n == 99 + k
    IN  "S" \o DigitSeq[((n \div 100) % 10) + 1] \o DigitSeq[((n \div 10) % 10) + 1]
            \o DigitSeq[(n % 10) + 1]

\* feed lengths: up to one chunk and one more, around two chunks, the longest
FeedLengths ==
    (0..(BatchSize + 1)) \cup {2 * BatchSize - 1, 2 * BatchSize, 2 * BatchSize + 1, MaxCodes}

\* runs over a feed of n metro areas and one item, n identifiers, the
\* output file absent, empty or left by an earlier run
InitBatch ==
    \E n \in FeedLengths, file \in {NoFile, EmptyFile, OldFile} :
        StartAt([k \in 1..n |-> AreaRow(MetroCode(k), "Metro")],
                <<ItemRow("AB1", "Food")>>, file)

\* list lengths of no, one, two and three chunks, whole and partial
LoopLengths ==
    {0, 1, BatchSize - 1, BatchSize, BatchSize + 1,
     2 * BatchSize, 2 * BatchSize + 1, MaxCodes}

InitLoop ==
    \E n \in LoopLengths :
        StartAt([k \in 1..n |-> AreaRow(MetroCode(k), "Metro")],
                <<ItemRow("AB1", "Food")>>, NoFile)

----------------------------------------------------------------------------
(* Actions *)

FilterArea ==
    /\ pc = "filter_area"
    /\ area_df' = AreaFilter(area_df)
    /\ pc' = "filter_item"
    /\ UNCHANGED <<item_df, code_list, x, code_chunk,
                   json_data, df, out_file, calls, call_times, file0,
                   written, now>>

FilterItem ==
    /\ pc = "filter_item"
    /\ item_df' = ItemFilter(item_df)
    /\ pc' = "generate"
    /\ UNCHANGED <<area_df, code_list, x, code_chunk,
                   json_data, df, out_file, calls, call_times, file0,
                   written, now>>

Generate ==
    /\ pc = "generate"
    /\ code_list' = GenerateCodes(area_df, item_df)
    /\ pc' = "loop"
    /\ UNCHANGED <<area_df, item_df, x, code_chunk,
                   json_data, df, out_file, calls, call_times, file0,
                   written, now>>

\* variant: the loop run only while a whole chunk of 50 is left
LoopWholeChunks ==
    /\ pc = "loop"
    /\ IF x + BatchSize <= Len(code_list)
       THEN /\ code_chunk' = CodeChunk(code_list, x)
            /\ pc' = "get_data"
       ELSE /\ pc' = "done"
            /\ UNCHANGED code_chunk
    /\ UNCHANGED <<area_df, item_df, code_list, x,
                   json_data, df, out_file, calls, call_times, file0,
                   written, now>>

\* for x in range(0, len(code_list), 50): code_chunk = code_list[x:x+50]
Loop ==
    /\ pc = "loop"
    /\ IF x < Len(code_list)
       THEN /\ code_chunk' = CodeChunk(code_list, x)
            /\ pc' = "get_data"
       ELSE /\ pc' = "done"
            /\ UNCHANGED code_chunk
    /\ UNCHANGED <<area_df, item_df, code_list, x,
                   json_data, df, out_file, calls, call_times, file0,
                   written, now>>

\* variant: the file opened for appending before the request is posted
GetDataOpening ==
    /\ pc = "get_data"
    /\ calls' = Append(calls, code_chunk)
    /\ call_times' = Append(call_times, now)
    /\ out_file' = [exists |-> TRUE, rows |-> out_file.rows]
    /\ \/ /\ pc' = "failed"
          /\ UNCHANGED json_data
       \/ \E resp \in Responses(code_chunk) :
            /\ Len(out_file.rows) + NumObs(resp.series) <= MaxFileRows
            /\ json_data' = resp
            /\ pc' = "normalize"
    /\ UNCHANGED <<area_df, item_df, code_list, x,
                   code_chunk, df, file0, written, now>>

\* requests.post and json.loads: a connection failure or a body that is
\* not JSON raises, otherwise the decoded body is returned
GetData ==
    /\ pc = "get_data"
    /\ calls' = Append(calls, code_chunk)
    /\ call_times' = Append(call_times, now)
    /\ \/ /\ pc' = "failed"
          /\ UNCHANGED json_data
       \/ \E resp \in Responses(code_chunk) :
            /\ Len(out_file.rows) + NumObs(resp.series) <= MaxFileRows
            /\ json_data' = resp
            /\ pc' = "normalize"
    /\ UNCHANGED <<area_df, item_df, code_list, x,
                   code_chunk, df, out_file, file0, written, now>>

\* variant: the KeyError caught, the batch dropped and the loop continued
NormalizeSkipping ==
    /\ pc = "normalize"
    /\ IF json_data.shape = "ok"
       THEN /\ df' = JsonNormalize(json_data)
            /\ pc' = "decode"
       ELSE /\ pc' = "sleep"
            /\ UNCHANGED df
    /\ UNCHANGED <<area_df, item_df, code_list, x,
                   code_chunk, json_data, out_file, calls, call_times, file0,
                   written, now>>

\* process_data, json_normalize and rename: KeyError without the shape
Normalize ==
    /\ pc = "normalize"
    /\ IF json_data.shape = "ok"
       THEN /\ df' = JsonNormalize(json_data)
            /\ pc' = "decode"
       ELSE /\ pc' = "failed"
            /\ UNCHANGED df
    /\ UNCHANGED <<area_df, item_df, code_list, x,
                   code_chunk, json_data, out_file, calls, call_times, file0,
                   written, now>>

\* process_data, the area_code and item_code columns
Decode ==
    /\ pc = "decode"
    /\ df' = DecodeColumns(df)
    /\ pc' = "merge"
    /\ UNCHANGED <<area_df, item_df, code_list, x,
                   code_chunk, json_data, out_file, calls, call_times, file0,
                   written, now>>

\* process_data, the merges, the drop and the column order
Merge ==
    /\ pc = "merge"
    /\ df' = Enrich(df, area_df, item_df)
    /\ pc' = "write"
    /\ UNCHANGED <<area_df, item_df, code_list, x,
                   code_chunk, json_data, out_file, calls, call_times, file0,
                   written, now>>

\* variant: the file opened with mode "w"
WriteTruncating ==
    /\ pc = "write"
    /\ out_file' = [exists |-> TRUE, rows |-> WriteBlock(<<>>, df.rows)]
    /\ written' = Append(written, [size |-> Len(out_file.rows), records |-> df.rows])
    /\ pc' = "sleep"
    /\ UNCHANGED <<area_df, item_df, code_list, x,
                   code_chunk, json_data, df, calls, call_times, file0, now>>

\* with open(out_file, "a"): header when st_size == 0, then the rows
Write ==
    /\ pc = "write"
    /\ out_file' = [exists |-> TRUE,
                    rows |-> out_file.rows \o WriteBlock(out_file.rows, df.rows)]
    /\ written' = Append(written, [size |-> Len(out_file.rows), records |-> df.rows])
    /\ pc' = "sleep"
    /\ UNCHANGED <<area_df, item_df, code_list, x,
                   code_chunk, json_data, df, calls, call_times, file0, now>>

\* variant: the delay only between two batches, none after the last one
SleepBetween ==
    /\ pc = "sleep"
    /\ now' = IF x + BatchSize < Len(code_list) THEN now + SleepTime ELSE now
    /\ x' = x + BatchSize
    /\ pc' = "loop"
    /\ UNCHANGED <<area_df, item_df, code_list,
                   code_chunk, json_data, df, out_file, calls, call_times, file0,
                   written>>

\* time.sleep(2), then the next x of the range
Sleep ==
    /\ pc = "sleep"
    /\ now' = now + SleepTime
    /\ x' = x + BatchSize
    /\ pc' = "loop"
    /\ UNCHANGED <<area_df, item_df, code_list,
                   code_chunk, json_data, df, out_file, calls, call_times, file0,
                   written>>

Next ==
    \/ FilterArea
    \/ FilterItem
    \/ Generate
    \/ Loop
    \/ GetData
    \/ Normalize
    \/ Decode
    \/ Merge
    \/ Write
    \/ Sleep

Spec == Init /\ [][Next]_vars

SpecBatch == InitBatch /\ [][Next]_vars

\* the runs over the list lengths around the multiples of 50, started
\* without an output file, of a program that is never suspended: the
\* statements run one after another and every call returns or raises
SpecLoopFair == InitLoop /\ [][Next]_vars /\ WF_vars(Next)

----------------------------------------------------------------------------
(* Properties *)

Ran(s) == {s[k] : k \in 1..Len(s)}

AfterGenerate == pc \notin {"filter_area", "filter_item", "generate"}

\* area codes of exactly 4 characters and item codes of several lengths
CodecAreas == {"S100", "S200", "A100", "0000", "S35A"}
CodecItems == {"A", "SA", "SA0", "AB1", "SA1", "0SA0", "SA0L1E", "SEHF01"}

\* C1: once process_data has decoded the ID column, every row whose ID is
\* Encode(g, i) for a 4-character area code g and an item code i of any
\* length carries exactly g as area_code and i as item_code.
C1_RoundTrip ==
    pc = "merge" =>
        \A k \in 1..Len(df.rows) : \A g \in CodecAreas, i \in CodecItems :
            Cell(df, df.rows[k], "ID") = Encode(g, i) =>
                /\ Cell(df, df.rows[k], "area_code") = g
                /\ Cell(df, df.rows[k], "item_code") = i

\* C1 witness: a decoded row whose ID was built from a 4-character area
\* code and a 6-character item code.
C1_Witness ==
    /\ pc = "merge"
    /\ \E k \in 1..Len(df.rows) : \E g \in CodecAreas, i \in CodecItems :
        /\ Len(i) = 6
        /\ Cell(df, df.rows[k], "ID") = Encode(g, i)

\* "S" followed by exactly 3 digits
IsMetroCode(code) ==
    /\ Len(code) = 4
    /\ SubSeq(code, 1, 1) = "S"
    /\ \A k \in 2..4 : SubSeq(code, k, k) \in Digits

\* C2: the geography filter leaves exactly the feed's rows whose code
\* is "S" followed by exactly 3 digits and whose name does not contain
\* "Size Class A", in feed order.
C2_GeographyFilterExact ==
    [][pc = "filter_area" =>
        area_df' = SelectSeq(area_df, LAMBDA r :
                       IsMetroCode(r.area_code) /\ ~Contains(r.area_name, "Size Class A"))]_vars

\* C3: the item filter leaves exactly the feed's rows whose code is
\* shorter than 4 and whose name does not begin with "All items" (with
\* anything or nothing after it), in feed order.
C3_ItemFilterExact ==
    [][pc = "filter_item" =>
        item_df' = SelectSeq(item_df, LAMBDA r :
                       Len(r.item_code) < 4 /\ ~StartsWith(r.item_name, "All items"))]_vars

\* C5: code_list has |area_df| x |item_df| identifiers, and the identifier
\* of the a-th area and i-th item stands at position (a-1)*|item_df| + i.
C5_CrossProduct ==
    AfterGenerate =>
        /\ Len(code_list) = Len(area_df) * Len(item_df)
        /\ \A a \in 1..Len(area_df), i \in 1..Len(item_df) :
              code_list[(a - 1) * Len(item_df) + i]
                  = Encode(area_df[a].area_code, item_df[i].item_code)

\* C5 witness: two areas and two items, four different identifiers.
C5_Witness ==
    /\ AfterGenerate
    /\ Len(area_df) = 2
    /\ Len(item_df) = 2
    /\ Cardinality(Ran(code_list)) = 4

\* C4: every request carries a consecutive slice of code_list of 1 to 50
\* identifiers, every request but the last one made carries exactly 50, and
\* when the run is done the requests, in order, add up to code_list.
C4_Batching ==
    /\ \A k \in 1..Len(calls) :
          /\ Len(calls[k]) >= 1
          /\ Len(calls[k]) <= 50
          /\ k < Len(calls) => Len(calls[k]) = 50
          /\ calls[k] = SubSeq(code_list, 50 * (k - 1) + 1,
                               50 * (k - 1) + Len(calls[k]))
    /\ pc = "done" => Flatten(calls) = code_list

\* C4 witness: a finished run over the longest list, in three requests, the
\* last one partial (120 identifiers: 50, 50, 20).
C4_Witness ==
    /\ pc = "done"
    /\ Len(code_list) = MaxCodes
    /\ Len(calls) = 3
    /\ Len(calls[1]) = 50
    /\ Len(calls[2]) = 50
    /\ Len(calls[3]) = MaxCodes - 100
    /\ Len(calls[3]) > 1

\* C6: process_data returns as many rows as the response has observations.
C6_RowCountPreserved ==
    pc = "write" => Len(df.rows) = NumObs(json_data.series)

AreaCodes == {area_df[k].area_code : k \in 1..Len(area_df)}
ItemCodes == {item_df[k].item_code : k \in 1..Len(item_df)}

\* the series of the response whose area code is in no catalog row and
\* whose item code is in the item catalog
UnmatchedArea(ser) ==
    /\ DecodeArea(ser.seriesID) \notin AreaCodes
    /\ DecodeItem(ser.seriesID) \in ItemCodes

RowsOf(id) == {k \in 1..Len(df.rows) : Cell(df, df.rows[k], "ID") = id}

\* C7: for a series whose area code has no catalog match and whose item
\* code has one, process_data returns a row for each of its observations,
\* every such row has a missing area_name and the catalog's item_name, and
\* the write that follows puts the row in the file.
C7_UnmatchedAreaKept ==
    pc \in {"write", "sleep"} =>
        \A s \in 1..Len(json_data.series) :
            LET ser == json_data.series[s]
            IN  UnmatchedArea(ser) =>
                  /\ Cardinality(RowsOf(ser.seriesID)) >= Len(ser.data)
                  /\ \A k \in RowsOf(ser.seriesID) :
                        /\ Cell(df, df.rows[k], "area_name") = NaN
                        /\ \E j \in 1..Len(item_df) :
                              /\ item_df[j].item_code = DecodeItem(ser.seriesID)
                              /\ Cell(df, df.rows[k], "item_name") = item_df[j].item_name
                  /\ (pc = "sleep" /\ ser.data # <<>>) =>
                        \E j \in 1..Len(out_file.rows) :
                            /\ out_file.rows[j][1] = ser.seriesID
                            /\ out_file.rows[j][2] = "nan"

\* C7 witness: a batch whose response had an observation of such a series
\* has been written.
C7_Witness ==
    /\ pc = "sleep"
    /\ \E s \in 1..Len(json_data.series) :
          /\ UnmatchedArea(json_data.series[s])
          /\ json_data.series[s].data # <<>>

\* the lines the k-th write appended
BlockOf(k) ==
    SubSeq(out_file.rows, written[k].size + 1,
           IF k < Len(written) THEN written[k + 1].size ELSE Len(out_file.rows))

HeaderLines == {j \in 1..Len(out_file.rows) : out_file.rows[j] = HeaderRow}

\* C8: a write starts its lines with the header exactly when the file had
\* no line when the write started, and writes the header nowhere else; so
\* once a run that found the file empty or absent has written, the first
\* line is the header and no other line is.
C8_SingleHeader ==
    /\ \A k \in 1..Len(written) :
          /\ (written[k].size = 0) <=> (BlockOf(k) # <<>> /\ BlockOf(k)[1] = HeaderRow)
          /\ \A j \in 2..Len(BlockOf(k)) : BlockOf(k)[j] # HeaderRow
    /\ (file0.rows = <<>> /\ written # <<>>) =>
          /\ out_file.rows[1] = HeaderRow
          /\ HeaderLines = {1}

\* C8 witness: from an empty or absent file, a first write without records
\* and a later write with records.
C8_Witness ==
    /\ file0.rows = <<>>
    /\ Len(written) >= 2
    /\ written[1].records = <<>>
    /\ written[2].records # <<>>

\* C9: when the run started on a file that had lines, the file is those
\* lines followed by the records of every write, in order, and nothing
\* else: no header is added and equal records are written again.
C9_DuplicateOnRerun ==
    file0.rows # <<>> =>
        out_file.rows = file0.rows
            \o Flatten([k \in 1..Len(written) |-> CsvRows(written[k].records)])

\* C9 witness: two writes of the same records on a file that had lines.
C9_Witness ==
    /\ file0.rows # <<>>
    /\ pc = "sleep"
    /\ Len(written) = 2
    /\ written[1].records # <<>>
    /\ written[1].records = written[2].records

\* C10: every step leaves the lines the file had as a prefix of its lines,
\* and never removes the file.
C10_AppendOnly ==
    [][/\ Len(out_file.rows) <= Len(out_file'.rows)
       /\ SubSeq(out_file'.rows, 1, Len(out_file.rows)) = out_file.rows
       /\ out_file.exists => out_file'.exists]_vars

\* C10 witness: a run has failed after a batch wrote records.
C10_Witness ==
    /\ pc = "failed"
    /\ Len(written) >= 1
    /\ written[1].records # <<>>
    /\ Len(out_file.rows) > Len(file0.rows)

\* C11: the clock counts the time slept.  Two consecutive requests are
\* posted exactly 2 time units of delay apart, and whenever the loop is at
\* its head or has ended, every request posted so far has been followed
\* by one delay of 2, the last request included.
C11_Pacing ==
    /\ \A k \in 1..(Len(call_times) - 1) : call_times[k + 1] - call_times[k] = 2
    /\ pc \in {"loop", "done"} => now = 2 * Len(calls)
    /\ pc = "sleep" => now = 2 * (Len(calls) - 1)

\* C11 witness: a run of three batches has ended.
C11_Witness ==
    /\ pc = "done"
    /\ Len(call_times) = 3
    /\ now = 6

\* the run has stopped on a response without Results -> series
StoppedOnMalformed ==
    /\ pc = "failed"
    /\ json_data.shape \in {"no_Results", "no_series"}

\* C12 as stated: no run stops on a response without the nested shape
\* while identifiers after that batch have not been requested.
C12_LaterBatchesQueried ==
    StoppedOnMalformed => Len(calls) * BatchSize >= Len(code_list)

\* C12 amended: normalising a response without the nested shape raises,
\* the step leaves the file as it was, and the raise ends the run: no
\* step is taken after it, so no later batch is requested or written.
C12_MalformedStopsRun ==
    [][/\ (pc = "normalize" /\ json_data.shape # "ok") =>
              (pc' = "failed" /\ out_file' = out_file)
       /\ pc # "failed"]_vars

\* C12 witness: the second batch's response lacked the shape after the
\* first batch was written, and identifiers remain that were never sent.
C12_Witness ==
    /\ StoppedOnMalformed
    /\ Len(calls) = 2
    /\ Len(written) = 1
    /\ Len(calls) * BatchSize < Len(code_list)

\* C13: every line of the file has the 9 values of the header, and the
\* records a write has just appended carry the header's columns in the
\* header's order.
C13_FixedLayout ==
    /\ \A j \in 1..Len(out_file.rows) : Len(out_file.rows[j]) = Len(HeaderRow)
    /\ (pc = "sleep" /\ df.rows # <<>>) => df.columns = HeaderRow

\* C14: from the head of the loop up to the write, no step of a batch
\* changes the file or creates it, and a batch can only fail in one of
\* those steps (the request or the normalisation): the file of a failed
\* batch is the file the batch started with.
C14_FailingBatchWritesNothing ==
    [][/\ pc \in {"loop", "get_data", "normalize", "decode", "merge"} =>
              out_file' = out_file
       /\ pc' = "failed" => pc \in {"get_data", "normalize"}]_vars

\* C14 witness: the first batch failed on its response and the file that
\* was absent at the start is still absent.
C14_Witness ==
    /\ StoppedOnMalformed
    /\ Len(calls) = 1
    /\ ~file0.exists
    /\ out_file = file0

\* the requests that carried the identifier at position i of code_list
SentIn(i) ==
    {k \in 1..Len(calls) : \E j \in 1..Len(calls[k]) : calls[k][j] = code_list[i]}

\* C15: every run ends, done or stopped by a raise.  A run that is done
\* made ceil(N/50) requests over its N identifiers, the k-th of them
\* starting at the k-th multiple of 50 of the list, and each identifier
\* went out in exactly one request.  A run stopped by a raise made its
\* last request for the batch it stopped at, and no step follows the end
\* of a run of either kind.
C15_CoverageAndTermination ==
    /\ <>(pc \in {"done", "failed"})
    /\ [](pc = "done" =>
            /\ Len(calls) = (Len(code_list) + 49) \div 50
            /\ \A k \in 1..Len(calls) : calls[k][1] = code_list[50 * (k - 1) + 1]
            /\ \A i \in 1..Len(code_list) : Cardinality(SentIn(i)) = 1)
    /\ [](pc = "failed" => Len(calls) = (x \div 50) + 1)
    /\ [][pc \notin {"done", "failed"}]_vars

\* C15 witness: a run over 101 identifiers is done after three requests.
C15_Witness ==
    /\ pc = "done"
    /\ Len(code_list) = 2 * BatchSize + 1
    /\ Len(calls) = 3
    /\ Len(calls[3]) = 1

====
